---- MODULE Spec2Model ----
(***************************************************************************)
(* A model of the ASOSTORE prepaid-wallet application: the tables of the   *)
(* hosted database (supabase/migrations), and the admin views that read    *)
(* them into component state and then issue their writes one network       *)
(* round trip at a time (src/components).                                  *)
(*                                                                         *)
(* Money is counted in the smallest stored unit (numeric(10,2): one cent), *)
(* so every stored amount is an integer and a value that is not a whole    *)
(* number of cents is rounded by the column when it is written.            *)
(***************************************************************************)
EXTENDS Integers, Sequences, FiniteSets, TLC

\* ------------------------------------------------------------------ bounds
MaxOps == 2               \* submitted actions that pass their validation
MaxQty == 2               \* largest quantity typed into a form

Sessions == {1, 2}        \* admin browser sessions (mounted views)
ItemIds == {1}
FormQuantities == 0..MaxQty     \* quantity typed into a form
\* prices of the catalogue, in cents: <<selling_price, cost_price>>
ItemPrices == { <<1, 2>>, <<0, 1>> }
InitQuantities == {2}           \* quantity of a catalogue item
InitDeposits == {0, 2}          \* what the student has deposited so far
CostsPerUnit == {0, 1}          \* cost_per_unit typed into the stock purchase form
Amounts == {0, 2}               \* amount typed into the transaction form
MaxCsvRows == 2                 \* lines of a CSV file after its header
\* first lines of the CSV files tried, cell by cell as split(',') cuts them
CsvHeaderLines ==
  { <<"name", "admission_no", "class_code">>,
    <<"Name", " admission_no", "class_code">>,
    <<"class_code", "admission_no", "name">>,
    <<"name", "admission_no">>,
    <<"name", "class_code", "balance">>,
    <<"name", "admission_no", "class_code", "balance">> }
\* later lines of the CSV files tried; <<" ">> is a line of white space only
CsvDataLines ==
  { <<"s2", "A2", "X">>, <<" s3 ", "A3", "Y">>, <<"s4", "A1", "X">>,
    <<"s2", "A2">>, <<"s2", "", "X">>, <<"s2", "A2", "X", "5">>, <<" ">> }

\* ------------------------------------------------------------------ state
VARIABLES
  students,        \* table students: id -> [name, admission_no, class_code,
                   \*                        balance, total_paid, total_spent,
                   \*                        last_payment ("" for NULL)]
  stock_items,     \* table stock_items: id -> [quantity, cost_price, selling_price]
  purchases,       \* table purchases, in insertion order
  transactions,    \* table transactions, in insertion order
  daily_sales,     \* table daily_sales, in insertion order
  stock_purchases, \* table stock_purchases, in insertion order
  session,         \* per admin session: component state (students, stockItems, refetch),
                   \* the running handler (pc and its form values st, it, qty, amt) and
                   \* history of its last action (done: writes committed, short) and
                   \* of all its actions (inTurn: each was submitted while no other
                   \* session's action was running, and none of its writes failed)
  ops,             \* number of actions submitted so far
  serial,          \* history: every action so far ran alone, on data as stored, no write failed
  csvImport,       \* Students view: the file last submitted to the import form and its outcome
  balanceCheck     \* BalanceCheck view: role of its client, form fields, results shown

tables == <<students, stock_items, purchases, transactions, daily_sales, stock_purchases>>
adminVars == <<session, ops, serial>>
viewVars == <<csvImport, balanceCheck>>
vars == <<students, stock_items, purchases, transactions, daily_sales, stock_purchases,
          session, ops, serial, csvImport, balanceCheck>>

StudentIds == DOMAIN students

\* ------------------------------------------------------ storage layer checks
\* students: CHECK (balance >= 0), (total_paid >= 0), (total_spent >= 0)
StudentRowOK(r) == r.balance >= 0 /\ r.total_paid >= 0 /\ r.total_spent >= 0

\* stock_items: CHECK (quantity >= 0), (cost_price >= 0), (selling_price >= 0)
StockItemRowOK(r) == r.quantity >= 0 /\ r.cost_price >= 0 /\ r.selling_price >= 0

\* a purchases table that accepts a total_price of 0
PurchaseRowOK_ZeroTotal(r) ==
  /\ r.student_id \in StudentIds /\ r.item_id \in ItemIds
  /\ r.quantity > 0 /\ r.total_price >= 0

\* a purchases table without its CHECK constraints
PurchaseRowOK_NoCheck(r) == r.student_id \in StudentIds /\ r.item_id \in ItemIds

\* purchases: student_id, item_id REFERENCES; CHECK (quantity > 0), (total_price > 0)
PurchaseRowOK(r) ==
  /\ r.student_id \in StudentIds /\ r.item_id \in ItemIds
  /\ r.quantity > 0 /\ r.total_price > 0

\* transactions: student_id REFERENCES; CHECK (amount > 0); enum type, enum method
TransactionRowOK(r) ==
  /\ r.student_id \in StudentIds
  /\ r.amount > 0
  /\ r.type \in {"deposit", "spend"}
  /\ r.method \in {"online", "bycash", "credit"}

\* daily_sales: item_id REFERENCES; CHECK (quantity_sold > 0) and >= 0 on the money
\* columns except profit
DailySaleRowOK(r) ==
  /\ r.item_id \in ItemIds
  /\ r.quantity_sold > 0
  /\ r.selling_price_per_unit >= 0 /\ r.total_revenue >= 0
  /\ r.cost_price_per_unit >= 0 /\ r.total_cost >= 0

\* stock_purchases: item_id REFERENCES; CHECK (quantity > 0), (cost_per_unit >= 0),
\* (total_cost >= 0)
StockPurchaseRowOK(r) ==
  /\ r.item_id \in ItemIds
  /\ r.quantity > 0 /\ r.cost_per_unit >= 0 /\ r.total_cost >= 0

\* numeric(10,2): a quotient n/d of cents (n >= 0, d > 0) is stored rounded to the
\* nearest cent, halves away from zero
RoundCents(n, d) == (2 * n + d) \div (2 * d)

\* ------------------------------------------------------------- sessions
Idle(s) == session[s].pc = "idle"
OthersIdle(s) == \A t \in Sessions \ {s} : Idle(t)
CacheFresh(s) == session[s].students = students /\ session[s].stockItems = stock_items

\* the pc after the write a handler is about to issue
NextPc(pc) ==
  CASE pc = "purchase_insert" -> "purchase_stock"
    [] pc = "purchase_stock" -> "purchase_student"
    [] pc = "purchase_student" -> "purchase_transaction"
    [] OTHER -> "idle"

\* a handler that does not look at the error of a write and goes on to the next one
Abort_Continue(s) == session' = [session EXCEPT ![s].pc = NextPc(@)]

\* the handler's catch block: toast an error, nothing else
Abort(s) == session' = [session EXCEPT ![s].pc = "idle", ![s].inTurn = FALSE]

\* a row of students as the insert of the add-student form creates it: the three
\* amounts take the column default 0, last_payment is NULL
NewStudent(name, admission_no, class_code) ==
  [name |-> name, admission_no |-> admission_no, class_code |-> class_code,
   balance |-> 0, total_paid |-> 0, total_spent |-> 0, last_payment |-> ""]

NoImport == [file |-> << >>, toast |-> "", inserted |-> {}]
NoBalanceCheck ==
  [role |-> "anon", searchType |-> "admission", searchValue |-> "", loading |-> FALSE,
   student |-> << >>, students |-> << >>, toast |-> "", query |-> << >>]

\* The catalogue exists and the student has been created; the student either is new
\* (all three amounts 0) or has made one deposit, which the transactions log holds.
Init ==
  /\ \E d \in InitDeposits :
       /\ students = (1 :> [NewStudent("s1", "A1", "X") EXCEPT !.balance = d,
                                                               !.total_paid = d])
       /\ transactions = IF d = 0 THEN << >>
                         ELSE << [student_id |-> 1, amount |-> d, type |-> "deposit",
                                  method |-> "bycash"] >>
  /\ \E p \in ItemPrices, q \in InitQuantities :
       stock_items = [i \in ItemIds |->
                        [quantity |-> q, cost_price |-> p[2], selling_price |-> p[1]]]
  /\ purchases = << >>
  /\ daily_sales = << >>
  /\ stock_purchases = << >>
  /\ session = [s \in Sessions |->
                  [pc |-> "idle", students |-> students, stockItems |-> stock_items,
                   refetch |-> FALSE, st |-> 1, it |-> 1, qty |-> 0, amt |-> 0,
                   done |-> {}, short |-> FALSE, inTurn |-> TRUE]]
  /\ ops = 0
  /\ serial = TRUE
  /\ csvImport = NoImport
  /\ balanceCheck = NoBalanceCheck

\* fetchData: the view's reads complete and replace the component state (on mount,
\* and after a successful submit)
fetchData(s) ==
  /\ Idle(s)
  /\ session' = [session EXCEPT ![s].students = students,
                                ![s].stockItems = stock_items,
                                ![s].refetch = FALSE]
  /\ UNCHANGED <<tables, ops, serial, viewVars>>

\* ------------------------------------------- student purchase (Purchases view)
\* history: an action submitted now runs alone and on the data as stored
RunsAlone(s) == OthersIdle(s) /\ CacheFresh(s)

\* start the handler's sequence of writes
Begin(s, pc, st, it, q, amt, short) ==
  /\ session' = [session EXCEPT ![s].pc = pc, ![s].st = st, ![s].it = it,
                                ![s].qty = q, ![s].amt = amt, ![s].done = {},
                                ![s].short = short,
                                ![s].inTurn = @ /\ OthersIdle(s)]
  /\ ops' = ops + 1
  /\ serial' = (serial /\ RunsAlone(s))
  /\ UNCHANGED <<tables, viewVars>>

\* const totalPrice = stockItem.selling_price * quantity
PurchaseTotalPrice(stockItem, quantity) == stockItem.selling_price * quantity

\* the checks before the first write: quantity > 0, stock, balance
PurchaseValid(stockItem, student, quantity) ==
  /\ quantity > 0
  /\ ~(stockItem.quantity < quantity)
  /\ ~(student.balance < PurchaseTotalPrice(stockItem, quantity))

\* a row that records the unit price as its total
PurchaseRow_UnitPrice(st, it, stockItem, quantity) ==
  [student_id |-> st, item_id |-> it, quantity |-> quantity,
   total_price |-> stockItem.selling_price]

\* the row of the purchases insert
PurchaseRow(st, it, stockItem, quantity) ==
  [student_id |-> st, item_id |-> it, quantity |-> quantity,
   total_price |-> PurchaseTotalPrice(stockItem, quantity)]

\* a decrement applied to the quantity as stored, not as loaded
PurchaseStockRow_FromStored(row, stockItem, quantity) ==
  [row EXCEPT !.quantity = row.quantity - quantity]

\* .update({ quantity: stockItem.quantity - quantity }) on the stored row
PurchaseStockRow(row, stockItem, quantity) ==
  [row EXCEPT !.quantity = stockItem.quantity - quantity]

\* a debit that forgets total_spent
PurchaseStudentRow_BalanceOnly(row, student, totalPrice) ==
  [row EXCEPT !.balance = student.balance - totalPrice]

\* .update({ balance: student.balance - totalPrice,
\*           total_spent: student.total_spent + totalPrice }) on the stored row
PurchaseStudentRow(row, student, totalPrice) ==
  [row EXCEPT !.balance = student.balance - totalPrice,
              !.total_spent = student.total_spent + totalPrice]

\* the row of the transactions insert
PurchaseTransactionRow(st, totalPrice) ==
  [student_id |-> st, amount |-> totalPrice, type |-> "spend", method |-> "credit"]

\* what the running handler of session s captured when it was submitted
TheItem(s) == session[s].stockItems[session[s].it]
TheStudent(s) == session[s].students[session[s].st]
Committed(s, k) == [session EXCEPT ![s].pc = k[2], ![s].done = @ \cup {k[1]}]
Completed(s, n) == [session EXCEPT ![s].pc = "idle", ![s].refetch = TRUE,
                                   ![s].done = @ \cup {n}]

\* history: the stored rows do not cover the purchase at the moment it is submitted
PurchaseShort(st, it, q) ==
  \/ q > stock_items[it].quantity
  \/ stock_items[it].selling_price * q > students[st].balance

PurchasesHandleSubmit(s, st, it, q) ==
  /\ Idle(s)
  /\ ops < MaxOps
  /\ IF PurchaseValid(session[s].stockItems[it], session[s].students[st], q)
       THEN Begin(s, "purchase_insert", st, it, q, 0, PurchaseShort(st, it, q))
       ELSE UNCHANGED vars

\* write 1: insert into purchases
PurchaseInsert(s) ==
  /\ session[s].pc = "purchase_insert"
  /\ LET row == PurchaseRow(session[s].st, session[s].it, TheItem(s), session[s].qty)
     IN \E net \in BOOLEAN :
          IF net /\ PurchaseRowOK(row)
            THEN /\ purchases' = Append(purchases, row)
                 /\ session' = Committed(s, <<1, "purchase_stock">>)
                 /\ UNCHANGED <<students, stock_items, transactions, daily_sales,
                                stock_purchases, ops, serial, viewVars>>
            ELSE /\ Abort(s)
                 /\ serial' = FALSE
                 /\ UNCHANGED <<tables, ops, viewVars>>

\* write 2: update stock_items
PurchaseStockUpdate(s) ==
  /\ session[s].pc = "purchase_stock"
  /\ LET row == PurchaseStockRow(stock_items[session[s].it], TheItem(s), session[s].qty)
     IN \E net \in BOOLEAN :
          IF net /\ StockItemRowOK(row)
            THEN /\ stock_items' = [stock_items EXCEPT ![session[s].it] = row]
                 /\ session' = Committed(s, <<2, "purchase_student">>)
                 /\ UNCHANGED <<students, purchases, transactions, daily_sales,
                                stock_purchases, ops, serial, viewVars>>
            ELSE /\ Abort(s)
                 /\ serial' = FALSE
                 /\ UNCHANGED <<tables, ops, viewVars>>

\* write 3: update students
PurchaseStudentUpdate(s) ==
  /\ session[s].pc = "purchase_student"
  /\ LET row == PurchaseStudentRow(students[session[s].st], TheStudent(s),
                                   PurchaseTotalPrice(TheItem(s), session[s].qty))
     IN \E net \in BOOLEAN :
          IF net /\ StudentRowOK(row)
            THEN /\ students' = [students EXCEPT ![session[s].st] = row]
                 /\ session' = Committed(s, <<3, "purchase_transaction">>)
                 /\ UNCHANGED <<stock_items, purchases, transactions, daily_sales,
                                stock_purchases, ops, serial, viewVars>>
            ELSE /\ Abort(s)
                 /\ serial' = FALSE
                 /\ UNCHANGED <<tables, ops, viewVars>>

\* write 4: insert into transactions, then the success path
PurchaseTransactionInsert(s) ==
  /\ session[s].pc = "purchase_transaction"
  /\ LET row == PurchaseTransactionRow(session[s].st,
                                       PurchaseTotalPrice(TheItem(s), session[s].qty))
     IN \E net \in BOOLEAN :
          IF net /\ TransactionRowOK(row)
            THEN /\ transactions' = Append(transactions, row)
                 /\ session' = Completed(s, 4)
                 /\ UNCHANGED <<students, stock_items, purchases, daily_sales,
                                stock_purchases, ops, serial, viewVars>>
            ELSE /\ Abort(s)
                 /\ serial' = FALSE
                 /\ UNCHANGED <<tables, ops, viewVars>>

\* --------------------------------------------------- daily sale (two forms)
\* the checks before the first write: quantity > 0, stock
SaleValid(selectedItem, quantitySold) ==
  /\ quantitySold > 0
  /\ ~(selectedItem.quantity < quantitySold)

\* a row whose total_cost is computed from the selling price
DailySaleRow_CostFromSellingPrice(it, selectedItem, quantitySold) ==
  LET totalRevenue == quantitySold * selectedItem.selling_price
  IN [item_id |-> it, quantity_sold |-> quantitySold,
      selling_price_per_unit |-> selectedItem.selling_price,
      total_revenue |-> totalRevenue,
      cost_price_per_unit |-> selectedItem.cost_price, total_cost |-> totalRevenue,
      profit |-> 0]

\* a row that leaves the cost snapshot out
DailySaleRow_NoCostSnapshot(it, selectedItem, quantitySold) ==
  LET totalRevenue == quantitySold * selectedItem.selling_price
  IN [item_id |-> it, quantity_sold |-> quantitySold,
      selling_price_per_unit |-> selectedItem.selling_price,
      total_revenue |-> totalRevenue,
      cost_price_per_unit |-> 0, total_cost |-> 0, profit |-> totalRevenue]

\* the row of the daily_sales insert: price and cost as loaded, and the computed totals
DailySaleRow(it, selectedItem, quantitySold) ==
  LET sellingPricePerUnit == selectedItem.selling_price
      costPricePerUnit == selectedItem.cost_price
      totalRevenue == quantitySold * sellingPricePerUnit
      totalCost == quantitySold * costPricePerUnit
  IN [item_id |-> it, quantity_sold |-> quantitySold,
      selling_price_per_unit |-> sellingPricePerUnit, total_revenue |-> totalRevenue,
      cost_price_per_unit |-> costPricePerUnit, total_cost |-> totalCost,
      profit |-> totalRevenue - totalCost]

\* a decrement by one unit, whatever was sold
SaleStockRow_ByOne(row, selectedItem, quantitySold) ==
  [row EXCEPT !.quantity = selectedItem.quantity - 1]

\* .update({ quantity: selectedItem.quantity - quantitySold }) on the stored row
SaleStockRow(row, selectedItem, quantitySold) ==
  [row EXCEPT !.quantity = selectedItem.quantity - quantitySold]

\* DailySales.handleSubmit (Daily sales view)
DailySalesHandleSubmit(s, it, q) ==
  /\ Idle(s)
  /\ ops < MaxOps
  /\ IF SaleValid(session[s].stockItems[it], q)
       THEN Begin(s, "sale_insert", 1, it, q, 0, FALSE)
       ELSE UNCHANGED vars

\* Purchases.handleSubmit of components/Purchases.tsx: the same sale, from the form
\* of the view that lists stock purchases
SalesFormHandleSubmit(s, it, q) ==
  /\ Idle(s)
  /\ ops < MaxOps
  /\ IF SaleValid(session[s].stockItems[it], q)
       THEN Begin(s, "sale_insert", 1, it, q, 0, FALSE)
       ELSE UNCHANGED vars

\* write 1: insert into daily_sales
SaleInsert(s) ==
  /\ session[s].pc = "sale_insert"
  /\ LET row == DailySaleRow(session[s].it, TheItem(s), session[s].qty)
     IN \E net \in BOOLEAN :
          IF net /\ DailySaleRowOK(row)
            THEN /\ daily_sales' = Append(daily_sales, row)
                 /\ session' = Committed(s, <<1, "sale_stock">>)
                 /\ UNCHANGED <<students, stock_items, purchases, transactions,
                                stock_purchases, ops, serial, viewVars>>
            ELSE /\ Abort(s)
                 /\ serial' = FALSE
                 /\ UNCHANGED <<tables, ops, viewVars>>

\* write 2: update stock_items, then the success path
SaleStockUpdate(s) ==
  /\ session[s].pc = "sale_stock"
  /\ LET row == SaleStockRow(stock_items[session[s].it], TheItem(s), session[s].qty)
     IN \E net \in BOOLEAN :
          IF net /\ StockItemRowOK(row)
            THEN /\ stock_items' = [stock_items EXCEPT ![session[s].it] = row]
                 /\ session' = Completed(s, 2)
                 /\ UNCHANGED <<students, purchases, transactions, daily_sales,
                                stock_purchases, ops, serial, viewVars>>
            ELSE /\ Abort(s)
                 /\ serial' = FALSE
                 /\ UNCHANGED <<tables, ops, viewVars>>

\* ------------------------------------------- stock purchase (from a supplier)
\* the checks before the first write: quantity > 0, cost per unit > 0
StockPurchaseValid(quantity, costPerUnit) == quantity > 0 /\ costPerUnit > 0

\* the row of the stock_purchases insert
StockPurchaseRow(it, quantity, costPerUnit) ==
  [item_id |-> it, quantity |-> quantity, cost_per_unit |-> costPerUnit,
   total_cost |-> quantity * costPerUnit]

\* an average that divides by the old quantity plus one instead of the new quantity
NewCostPrice_WrongDivisor(stockItem, quantity, costPerUnit) ==
  RoundCents(stockItem.quantity * stockItem.cost_price + quantity * costPerUnit,
             stockItem.quantity + 1)

\* newCostPrice = (stockItem.quantity * stockItem.cost_price + totalCost) / newQuantity,
\* as the cost_price column stores it
NewCostPrice(stockItem, quantity, costPerUnit) ==
  LET newQuantity == stockItem.quantity + quantity
      currentTotalValue == stockItem.quantity * stockItem.cost_price
      newTotalValue == currentTotalValue + quantity * costPerUnit
  IN RoundCents(newTotalValue, newQuantity)

\* an update that stores the purchased quantity in place of the sum
StockPurchaseStockRow_Replaces(row, stockItem, quantity, costPerUnit) ==
  [row EXCEPT !.quantity = quantity,
              !.cost_price = NewCostPrice(stockItem, quantity, costPerUnit)]

\* .update({ quantity: newQuantity, cost_price: newCostPrice }) on the stored row
StockPurchaseStockRow(row, stockItem, quantity, costPerUnit) ==
  [row EXCEPT !.quantity = stockItem.quantity + quantity,
              !.cost_price = NewCostPrice(stockItem, quantity, costPerUnit)]

StockPurchasesHandleSubmit(s, it, q, c) ==
  /\ Idle(s)
  /\ ops < MaxOps
  /\ IF StockPurchaseValid(q, c)
       THEN Begin(s, "stockpurchase_insert", 1, it, q, c, FALSE)
       ELSE UNCHANGED vars

\* write 1: insert into stock_purchases
StockPurchaseInsert(s) ==
  /\ session[s].pc = "stockpurchase_insert"
  /\ LET row == StockPurchaseRow(session[s].it, session[s].qty, session[s].amt)
     IN \E net \in BOOLEAN :
          IF net /\ StockPurchaseRowOK(row)
            THEN /\ stock_purchases' = Append(stock_purchases, row)
                 /\ session' = Committed(s, <<1, "stockpurchase_stock">>)
                 /\ UNCHANGED <<students, stock_items, purchases, transactions,
                                daily_sales, ops, serial, viewVars>>
            ELSE /\ Abort(s)
                 /\ serial' = FALSE
                 /\ UNCHANGED <<tables, ops, viewVars>>

\* write 2: update stock_items, then the success path
StockPurchaseStockUpdate(s) ==
  /\ session[s].pc = "stockpurchase_stock"
  /\ LET row == StockPurchaseStockRow(stock_items[session[s].it], TheItem(s),
                                      session[s].qty, session[s].amt)
     IN \E net \in BOOLEAN :
          IF net /\ StockItemRowOK(row)
            THEN /\ stock_items' = [stock_items EXCEPT ![session[s].it] = row]
                 /\ session' = Completed(s, 2)
                 /\ UNCHANGED <<students, purchases, transactions, daily_sales,
                                stock_purchases, ops, serial, viewVars>>
            ELSE /\ Abort(s)
                 /\ serial' = FALSE
                 /\ UNCHANGED <<tables, ops, viewVars>>

\* ------------------------------------- deposit / spend (Transactions view)
TransactionValid(amount) == amount > 0

\* the row of the transactions insert
TransactionRow(st, type, amount) ==
  [student_id |-> st, amount |-> amount, type |-> type, method |-> "bycash"]

\* a deposit raises balance and total_paid, a spend lowers balance and raises total_spent
TransactionStudentRow(row, student, type, amount) ==
  IF type = "deposit"
    THEN [row EXCEPT !.balance = student.balance + amount,
                     !.total_paid = student.total_paid + amount]
    ELSE [row EXCEPT !.balance = student.balance - amount,
                     !.total_spent = student.total_spent + amount]

TransactionsHandleSubmit(s, st, type, amount) ==
  /\ Idle(s)
  /\ ops < MaxOps
  /\ IF TransactionValid(amount)
       THEN Begin(s, type \o "_insert", st, 1, 0, amount, FALSE)
       ELSE UNCHANGED vars

TransactionType(s) == IF session[s].pc \in {"deposit_insert", "deposit_student"}
                        THEN "deposit" ELSE "spend"

\* write 1: insert into transactions
TransactionInsert(s) ==
  /\ session[s].pc \in {"deposit_insert", "spend_insert"}
  /\ LET row == TransactionRow(session[s].st, TransactionType(s), session[s].amt)
     IN \E net \in BOOLEAN :
          IF net /\ TransactionRowOK(row)
            THEN /\ transactions' = Append(transactions, row)
                 /\ session' = Committed(s, <<1, TransactionType(s) \o "_student">>)
                 /\ UNCHANGED <<students, stock_items, purchases, daily_sales,
                                stock_purchases, ops, serial, viewVars>>
            ELSE /\ Abort(s)
                 /\ serial' = FALSE
                 /\ UNCHANGED <<tables, ops, viewVars>>

\* write 2: update students, then the success path
TransactionStudentUpdate(s) ==
  /\ session[s].pc \in {"deposit_student", "spend_student"}
  /\ LET row == TransactionStudentRow(students[session[s].st], TheStudent(s),
                                      TransactionType(s), session[s].amt)
     IN \E net \in BOOLEAN :
          IF net /\ StudentRowOK(row)
            THEN /\ students' = [students EXCEPT ![session[s].st] = row]
                 /\ session' = Completed(s, 2)
                 /\ UNCHANGED <<stock_items, purchases, transactions, daily_sales,
                                stock_purchases, ops, serial, viewVars>>
            ELSE /\ Abort(s)
                 /\ serial' = FALSE
                 /\ UNCHANGED <<tables, ops, viewVars>>

Next ==
  \E s \in Sessions :
    \/ fetchData(s)
    \/ \E st \in StudentIds, it \in ItemIds, q \in FormQuantities :
         PurchasesHandleSubmit(s, st, it, q)
    \/ PurchaseInsert(s)
    \/ PurchaseStockUpdate(s)
    \/ PurchaseStudentUpdate(s)
    \/ PurchaseTransactionInsert(s)
    \/ \E it \in ItemIds, q \in FormQuantities : DailySalesHandleSubmit(s, it, q)
    \/ \E it \in ItemIds, q \in FormQuantities : SalesFormHandleSubmit(s, it, q)
    \/ SaleInsert(s)
    \/ SaleStockUpdate(s)
    \/ \E it \in ItemIds, q \in FormQuantities, c \in CostsPerUnit :
         StockPurchasesHandleSubmit(s, it, q, c)
    \/ StockPurchaseInsert(s)
    \/ StockPurchaseStockUpdate(s)
    \/ \E st \in StudentIds, type \in {"deposit", "spend"}, a \in Amounts :
         TransactionsHandleSubmit(s, st, type, a)
    \/ TransactionInsert(s)
    \/ TransactionStudentUpdate(s)

Spec == Init /\ [][Next]_vars

\* ======================================================================
\* Students view: CSV import
\* ======================================================================
Range(f) == {f[i] : i \in DOMAIN f}
Max(S) == CHOOSE x \in S : \A y \in S : y <= x

\* String.prototype.trim on the cells used here
Trim(c) ==
  CASE c = " " -> ""
    [] c = " s3 " -> "s3"
    [] c = " admission_no" -> "admission_no"
    [] c = " A2 " -> "A2"
    [] OTHER -> c

\* String.prototype.toLowerCase on the header cells used here
ToLowerCase(c) == IF c = "Name" THEN "name" ELSE c

\* text.split('\n').filter(line => line.trim()): a line is kept unless it is white
\* space only
NonBlankLine(line) == ~(Len(line) = 1 /\ Trim(line[1]) = "")
CsvLines(file) == SelectSeq(file, NonBlankLine)

\* lines[0].split(',').map(h => h.trim().toLowerCase())
CsvHeaders(line) == [i \in 1..Len(line) |-> ToLowerCase(Trim(line[i]))]

requiredHeaders == {"name", "admission_no", "class_code"}

\* requiredHeaders.filter(h => !headers.includes(h))
MissingHeaders(headers) == {h \in requiredHeaders : h \notin Range(headers)}

\* lines[i].split(',').map(v => v.trim())
CsvValues(line) == [i \in 1..Len(line) |-> Trim(line[i])]

\* headers.forEach((header, index) => student[header] = values[index]): the object of
\* a row, one key per header name, the last column of a repeated name winning
CsvStudent(headers, values) ==
  [h \in Range(headers) |-> values[Max({i \in 1..Len(headers) : headers[i] = h})]]

\* a check of the rows that lets a row of the wrong length through when it is longer
\* than the header
CsvRowError_LongRowsPass(headers, values) ==
  IF Len(values) < Len(headers) THEN "Incorrect number of columns"
  ELSE LET student == CsvStudent(headers, SubSeq(values, 1, Len(headers)))
       IN IF student["name"] = "" \/ student["admission_no"] = ""
               \/ student["class_code"] = ""
            THEN "Missing required fields"
            ELSE ""

\* the error pushed for a row, "" when the row goes to studentsToImport
CsvRowError(headers, values) ==
  IF Len(values) # Len(headers) THEN "Incorrect number of columns"
  ELSE LET student == CsvStudent(headers, values)
       IN IF student["name"] = "" \/ student["admission_no"] = ""
               \/ student["class_code"] = ""
            THEN "Missing required fields"
            ELSE ""

\* numeric(10,2) input: the text of an amount, in cents; -1 when it is no number
CsvNumber(text) == IF text = "5" THEN 500 ELSE -1

\* the columns of students a row object may name
StudentColumns == {"name", "admission_no", "class_code", "balance", "total_paid",
                   "total_spent", "last_payment"}

\* the row students gets from a row object: columns not named take their default
StudentFromObject(o) ==
  LET amount(col) == IF col \in DOMAIN o THEN CsvNumber(o[col]) ELSE 0
  IN [name |-> o["name"], admission_no |-> o["admission_no"],
      class_code |-> o["class_code"], balance |-> amount("balance"),
      total_paid |-> amount("total_paid"), total_spent |-> amount("total_spent"),
      last_payment |-> IF "last_payment" \in DOMAIN o THEN o["last_payment"] ELSE ""]

\* students: CHECK (length(trim(..)) > 0) on the three texts, and the amounts
StudentInsertOK(r) ==
  /\ Trim(r.name) # "" /\ Trim(r.admission_no) # "" /\ Trim(r.class_code) # ""
  /\ StudentRowOK(r)

\* a uniqueness that is checked among the rows of one statement only
AdmissionNosUnique_AmongRows(rows) ==
  \A i, j \in 1..Len(rows) : rows[i].admission_no = rows[j].admission_no => i = j

\* admission_no text UNIQUE: among the rows inserted together and against the table
AdmissionNosUnique(rows) ==
  /\ \A i, j \in 1..Len(rows) : rows[i].admission_no = rows[j].admission_no => i = j
  /\ \A i \in 1..Len(rows), k \in StudentIds :
       rows[i].admission_no # students[k].admission_no

\* the outcome of .from('students').insert(objects): one statement, all rows or none
InsertError(objects) ==
  LET rows == [i \in 1..Len(objects) |-> StudentFromObject(objects[i])]
  IN IF \E i \in 1..Len(objects) :
          \/ ~(DOMAIN objects[i] \subseteq StudentColumns)
          \/ \E col \in DOMAIN objects[i] \cap {"balance", "total_paid", "total_spent"} :
               CsvNumber(objects[i][col]) < 0
       THEN "22P02"
     ELSE IF \E i \in 1..Len(rows) : ~StudentInsertOK(rows[i]) THEN "23514"
     ELSE IF ~AdmissionNosUnique(rows) THEN "23505"
     ELSE ""

\* the table after the insert: the rows get fresh ids in order
InsertedStudents(objects) ==
  LET base == IF StudentIds = {} THEN 0 ELSE Max(StudentIds)
  IN [k \in StudentIds \cup (base + 1)..(base + Len(objects)) |->
        IF k \in StudentIds THEN students[k] ELSE StudentFromObject(objects[k - base])]

\* the handler ends with a toast and no write
ImportEnds(file, toast) ==
  /\ csvImport' = [file |-> file, toast |-> toast, inserted |-> {}]
  /\ UNCHANGED <<tables, adminVars, balanceCheck>>

\* Students.handleCsvImport on a chosen file
handleCsvImport(file) ==
  LET lines == CsvLines(file)
      headers == CsvHeaders(lines[1])
      rowNos == 2..Len(lines)
      errors == {i \in rowNos : CsvRowError(headers, CsvValues(lines[i])) # ""}
      importNos == SelectSeq([i \in 1..Len(lines) |-> i],
                             LAMBDA i : i \in rowNos \ errors)
      studentsToImport ==
        [k \in 1..Len(importNos) |-> CsvStudent(headers, CsvValues(lines[importNos[k]]))]
  IN IF Len(lines) < 2
       THEN ImportEnds(file, "CSV file must contain at least a header and one data row")
     ELSE IF MissingHeaders(headers) # {}
       THEN ImportEnds(file, "Missing required columns")
     ELSE IF errors # {}
       THEN ImportEnds(file, "Import errors")
     ELSE IF Len(studentsToImport) = 0
       THEN ImportEnds(file, "No valid students found in CSV")
     ELSE \E net \in BOOLEAN :
            LET error == IF net THEN InsertError(studentsToImport) ELSE "network"
            IN IF error = "23505"
                 THEN ImportEnds(file, "Some admission numbers already exist")
               ELSE IF error # ""
                 THEN ImportEnds(file, "Failed to import students")
               ELSE /\ students' = InsertedStudents(studentsToImport)
                    /\ csvImport' = [file |-> file, toast |-> "Successfully imported",
                                     inserted |-> Range(importNos)]
                    /\ UNCHANGED <<stock_items, purchases, transactions, daily_sales,
                                   stock_purchases, adminVars, balanceCheck>>

\* the files tried: a header line and up to MaxCsvRows further lines
CsvFiles ==
  UNION { { <<h>> \o rows : h \in CsvHeaderLines, rows \in [1..n -> CsvDataLines] }
          : n \in 1..MaxCsvRows }

\* the students table the import starts from: empty, or holding one student
InitCsv ==
  /\ students \in { << >>, <<NewStudent("s1", "A1", "X")>> }
  /\ stock_items = << >>
  /\ purchases = << >>
  /\ transactions = << >>
  /\ daily_sales = << >>
  /\ stock_purchases = << >>
  /\ session = << >>
  /\ ops = 0
  /\ serial = TRUE
  /\ csvImport = NoImport
  /\ balanceCheck = NoBalanceCheck

\* one submission of the import form, from each table it can start from
NextCsv == \E file \in CsvFiles : csvImport = NoImport /\ handleCsvImport(file)

SpecCsv == InitCsv /\ [][NextCsv]_vars

\* ======================================================================
\* BalanceCheck view (public) and the row-level security of students
\* ======================================================================
\* the policies on students: "Public can read students for balance check"
\* (FOR SELECT TO anon, authenticated) and "Authenticated users can manage students"
\* (FOR ALL TO authenticated)
StudentsPolicy_AuthenticatedOnly(role, command) == role = "authenticated"

StudentsPolicy(role, command) ==
  \/ command = "SELECT" /\ role \in {"anon", "authenticated"}
  \/ role = "authenticated"

\* the students a SELECT of the role sees, as ids
VisibleStudents(role) == IF StudentsPolicy(role, "SELECT") THEN StudentIds ELSE {}

\* the ids S as a list in the order of .order('name'); names here are s1 < s2 < s3
NameRank(name) == CASE name = "s1" -> 1 [] name = "s2" -> 2 [] name = "s3" -> 3
                    [] OTHER -> 4
RECURSIVE OrderByName(_)
OrderByName(S) ==
  IF S = {} THEN << >>
  ELSE LET first == CHOOSE k \in S :
                      \A j \in S : <<NameRank(students[k].name), k>> = <<NameRank(students[j].name), j>>
                                   \/ NameRank(students[k].name) < NameRank(students[j].name)
                                   \/ (NameRank(students[k].name) = NameRank(students[j].name)
                                       /\ k < j)
       IN <<students[first]>> \o OrderByName(S \ {first})

\* a search that matches the text as typed, without trimming it
AdmissionMatches_Untrimmed(role, value) ==
  {k \in VisibleStudents(role) : students[k].admission_no = value}

\* .eq('admission_no', searchValue.trim())
AdmissionMatches(role, value) ==
  {k \in VisibleStudents(role) : students[k].admission_no = Trim(value)}

\* .eq('class_code', searchValue.trim())
ClassMatches(role, value) ==
  {k \in VisibleStudents(role) : students[k].class_code = Trim(value)}

\* the form fields change (radio buttons, text input)
setSearch(type, value) ==
  /\ balanceCheck' = [balanceCheck EXCEPT !.searchType = type, !.searchValue = value]
  /\ UNCHANGED <<tables, adminVars, csvImport>>

\* a search that leaves the previous results on the screen
handleSearch_KeepsResults ==
  /\ ~balanceCheck.loading
  /\ IF Trim(balanceCheck.searchValue) = ""
       THEN balanceCheck' = [balanceCheck EXCEPT !.toast = "Please enter a search value"]
       ELSE balanceCheck' = [balanceCheck EXCEPT !.loading = TRUE, !.toast = "",
                                                 !.query = <<balanceCheck.searchType,
                                                             balanceCheck.searchValue>>]
  /\ UNCHANGED <<tables, adminVars, csvImport>>

\* handleSearch up to the query: the button is disabled while loading
handleSearch ==
  /\ ~balanceCheck.loading
  /\ IF Trim(balanceCheck.searchValue) = ""
       THEN balanceCheck' = [balanceCheck EXCEPT !.toast = "Please enter a search value"]
       ELSE balanceCheck' = [balanceCheck EXCEPT !.loading = TRUE, !.student = << >>,
                                                 !.students = << >>, !.toast = "",
                                                 !.query = <<balanceCheck.searchType,
                                                             balanceCheck.searchValue>>]
  /\ UNCHANGED <<tables, adminVars, csvImport>>

\* handleSearch from the answer of the query on: .single() answers PGRST116 unless
\* exactly one row matches
searchAnswered ==
  /\ balanceCheck.loading
  /\ LET type == balanceCheck.query[1]
         value == balanceCheck.query[2]
         one == AdmissionMatches(balanceCheck.role, value)
         class == OrderByName(ClassMatches(balanceCheck.role, value))
     IN \E net \in BOOLEAN :
          balanceCheck' =
            IF ~net
              THEN [balanceCheck EXCEPT !.loading = FALSE,
                                        !.toast = "An error occurred while searching"]
            ELSE IF type = "admission"
              THEN IF Cardinality(one) # 1
                     THEN [balanceCheck EXCEPT !.loading = FALSE,
                                               !.toast = "Student not found"]
                     ELSE [balanceCheck EXCEPT !.loading = FALSE,
                                               !.student = <<students[CHOOSE k \in one : TRUE]>>]
            ELSE IF Len(class) = 0
              THEN [balanceCheck EXCEPT !.loading = FALSE,
                                        !.toast = "No students found in this class"]
              ELSE [balanceCheck EXCEPT !.loading = FALSE, !.students = class]
  /\ UNCHANGED <<tables, adminVars, csvImport>>

\* reset: the "new search" button
reset ==
  /\ balanceCheck' = [balanceCheck EXCEPT !.searchValue = "", !.student = << >>,
                                          !.students = << >>]
  /\ UNCHANGED <<tables, adminVars, csvImport>>

\* Students.handleSubmit with no student being edited: one insert of the form's
\* three fields, by an admin
StudentsHandleSubmitAdd(formData) ==
  /\ formData.name # "" /\ formData.admission_no # "" /\ formData.class_code # ""
  /\ \E net \in BOOLEAN :
       LET objects == <<formData>>
       IN IF net /\ StudentsPolicy("authenticated", "INSERT") /\ InsertError(objects) = ""
            THEN students' = InsertedStudents(objects)
            ELSE UNCHANGED students
  /\ UNCHANGED <<stock_items, purchases, transactions, daily_sales, stock_purchases,
                 adminVars, viewVars>>

\* what is typed into the add-student form
StudentForms ==
  { [name |-> "s1", admission_no |-> "A1", class_code |-> "X"],
    [name |-> "s2", admission_no |-> "A2", class_code |-> "X"],
    [name |-> "s3", admission_no |-> "A3", class_code |-> "Y"] }
\* what is typed into the search box
SearchValues == {" ", "A1", " A2 ", "X", "Z"}

InitBalance ==
  /\ students = << >>
  /\ stock_items = << >>
  /\ purchases = << >>
  /\ transactions = << >>
  /\ daily_sales = << >>
  /\ stock_purchases = << >>
  /\ session = << >>
  /\ ops = 0
  /\ serial = TRUE
  /\ csvImport = NoImport
  /\ \E role \in {"anon", "authenticated"} :
       balanceCheck = [NoBalanceCheck EXCEPT !.role = role]

NextBalance ==
  \/ \E type \in {"admission", "class"}, value \in SearchValues : setSearch(type, value)
  \/ handleSearch
  \/ searchAnswered
  \/ reset
  \/ \E formData \in StudentForms : StudentsHandleSubmitAdd(formData)

SpecBalance == InitBalance /\ [][NextBalance]_vars

\* ======================================================================
\* Students view (admin): add, edit and delete a student; deleting a stock item
\* ======================================================================
MaxStudentOps == 3

\* In this part `session` is the component state of the one admin session that has
\* the Students view open: the student being edited (0: none), the form as last
\* submitted, the code of the last response's error and the last toast.
NoStudentsView ==
  [editingStudent |-> 0, formData |-> << >>, error |-> "", toast |-> "", action |-> ""]

\* what is typed into the form: the three well-formed students, a blank (white
\* space) name beside an admission number, and an empty name
TypedStudentForms ==
  StudentForms \cup { [name |-> " ", admission_no |-> "A1", class_code |-> "X"],
                      [name |-> "", admission_no |-> "A3", class_code |-> "Y"] }

\* an update that writes a whole new row
UpdatedStudent_WholeRow(id, formData) ==
  NewStudent(formData.name, formData.admission_no, formData.class_code)

\* the row after .update(formData).eq('id', id)
UpdatedStudent(id, formData) ==
  [students[id] EXCEPT !.name = formData.name, !.admission_no = formData.admission_no,
                       !.class_code = formData.class_code]

\* an update that does not look at the other rows' admission numbers
StudentUpdateError_NoUnique(id, formData) ==
  IF id \notin StudentIds THEN ""
  ELSE IF ~StudentInsertOK(UpdatedStudent(id, formData)) THEN "23514"
  ELSE ""

\* the error of the update: the row's CHECKs are evaluated before its UNIQUE index;
\* an id that matches no row updates nothing and is no error
StudentUpdateError(id, formData) ==
  IF id \notin StudentIds THEN ""
  ELSE IF ~StudentInsertOK(UpdatedStudent(id, formData)) THEN "23514"
  ELSE IF \E k \in StudentIds \ {id} :
            students[k].admission_no = formData.admission_no THEN "23505"
  ELSE ""

\* the "Add Student" button: the form opens with no student being edited
showAddStudent ==
  /\ session' = [session EXCEPT !.editingStudent = 0, !.action = "add"]
  /\ UNCHANGED <<tables, ops, serial, viewVars>>

\* handleEdit: the form opens on a listed student
handleEdit(id) ==
  /\ session' = [session EXCEPT !.editingStudent = id, !.action = "edit"]
  /\ UNCHANGED <<tables, ops, serial, viewVars>>

\* Students.handleSubmit: one update or one insert of the form's three fields
StudentsHandleSubmit(formData) ==
  /\ ops < MaxStudentOps
  /\ ops' = ops + 1
  /\ IF formData.name = "" \/ formData.admission_no = "" \/ formData.class_code = ""
       THEN /\ session' = [session EXCEPT !.formData = formData, !.error = "",
                                          !.toast = "Please fill in all fields",
                                          !.action = "submit"]
            /\ UNCHANGED students
       ELSE \E net \in BOOLEAN :
              LET editing == session.editingStudent
                  error == IF ~net THEN "network"
                           ELSE IF editing # 0 THEN StudentUpdateError(editing, formData)
                           ELSE InsertError(<<formData>>)
              IN IF error = ""
                   THEN /\ students' =
                             IF editing = 0 THEN InsertedStudents(<<formData>>)
                             ELSE IF editing \in StudentIds
                               THEN [students EXCEPT
                                       ![editing] = UpdatedStudent(editing, formData)]
                             ELSE students
                        /\ session' = [editingStudent |-> 0, formData |-> formData,
                                       error |-> "",
                                       toast |-> IF editing = 0
                                                   THEN "Student added successfully"
                                                   ELSE "Student updated successfully",
                                       action |-> "submit"]
                   ELSE /\ UNCHANGED students
                        /\ session' = [session EXCEPT
                                         !.formData = formData, !.error = error,
                                         !.toast = IF error = "23505"
                                                     THEN "Admission number already exists"
                                                     ELSE "Failed to save student",
                                         !.action = "submit"]
  /\ UNCHANGED <<stock_items, purchases, transactions, daily_sales, stock_purchases,
                 serial, viewVars>>

\* a delete that empties the log, and one that leaves the purchases in place
TransactionsAfterStudentDelete_All(id) == << >>
PurchasesAfterStudentDelete_Kept(id) == purchases

\* ON DELETE CASCADE of transactions.student_id and purchases.student_id
TransactionsAfterStudentDelete(id) ==
  SelectSeq(transactions, LAMBDA r : r.student_id # id)
PurchasesAfterStudentDelete(id) ==
  SelectSeq(purchases, LAMBDA r : r.student_id # id)

\* Students.handleDelete, once confirmed: one delete of the student's row
handleDelete(id) ==
  /\ ops < MaxStudentOps
  /\ ops' = ops + 1
  /\ \E net \in BOOLEAN :
       IF net
         THEN /\ students' = [k \in StudentIds \ {id} |-> students[k]]
              /\ transactions' = TransactionsAfterStudentDelete(id)
              /\ purchases' = PurchasesAfterStudentDelete(id)
              /\ session' = [session EXCEPT !.error = "", !.action = "delete",
                                            !.toast = "Student deleted successfully"]
         ELSE /\ UNCHANGED <<students, transactions, purchases>>
              /\ session' = [session EXCEPT !.error = "network", !.action = "delete",
                                            !.toast = "Failed to delete student"]
  /\ UNCHANGED <<stock_items, daily_sales, stock_purchases, serial, viewVars>>

\* ON DELETE CASCADE of the three item_id columns
RowsAfterItemDelete(rows, it) == SelectSeq(rows, LAMBDA r : r.item_id # it)

\* Stock items view: delete of a catalogue item
StockItemsHandleDelete(it) ==
  /\ ops < MaxStudentOps
  /\ ops' = ops + 1
  /\ \E net \in BOOLEAN :
       IF net
         THEN /\ stock_items' = [k \in DOMAIN stock_items \ {it} |-> stock_items[k]]
              /\ purchases' = RowsAfterItemDelete(purchases, it)
              /\ daily_sales' = RowsAfterItemDelete(daily_sales, it)
              /\ stock_purchases' = RowsAfterItemDelete(stock_purchases, it)
         ELSE UNCHANGED <<stock_items, purchases, daily_sales, stock_purchases>>
  /\ session' = [session EXCEPT !.action = "delete item"]
  /\ UNCHANGED <<students, transactions, serial, viewVars>>

\* A shop in use: student 1 has deposited 2 and bought one unit at 1, student 2 (when
\* there) has deposited 1; the item has been bought from a supplier and sold over the
\* counter.
ShopInUse ==
  /\ \E n \in {1, 2} :
       LET s1 == [NewStudent("s1", "A1", "X") EXCEPT !.balance = 1, !.total_paid = 2,
                                                     !.total_spent = 1,
                                                     !.last_payment = "2025-08-07"]
           s2 == [NewStudent("s2", "A2", "X") EXCEPT !.balance = 1, !.total_paid = 1]
           log == << [student_id |-> 1, amount |-> 2, type |-> "deposit",
                      method |-> "bycash"],
                     [student_id |-> 1, amount |-> 1, type |-> "spend",
                      method |-> "credit"] >>
       IN IF n = 1
            THEN students = <<s1>> /\ transactions = log
            ELSE /\ students = <<s1, s2>>
                 /\ transactions = Append(log, [student_id |-> 2, amount |-> 1,
                                                type |-> "deposit", method |-> "online"])
  /\ stock_items = 1 :> [quantity |-> 2, cost_price |-> 1, selling_price |-> 1]
  /\ purchases = << [student_id |-> 1, item_id |-> 1, quantity |-> 1,
                     total_price |-> 1] >>
  /\ daily_sales = << [item_id |-> 1, quantity_sold |-> 1, selling_price_per_unit |-> 1,
                       total_revenue |-> 1, cost_price_per_unit |-> 1, total_cost |-> 1,
                       profit |-> 0] >>
  /\ stock_purchases = << [item_id |-> 1, quantity |-> 2, cost_per_unit |-> 1,
                           total_cost |-> 2] >>
  /\ ops = 0
  /\ serial = TRUE
  /\ csvImport = NoImport
  /\ balanceCheck = NoBalanceCheck

InitStudents == ShopInUse /\ session = NoStudentsView

NextStudents ==
  \/ showAddStudent
  \/ \E id \in StudentIds : handleEdit(id)
  \/ \E formData \in TypedStudentForms : StudentsHandleSubmit(formData)
  \/ \E id \in StudentIds : handleDelete(id)
  \/ \E it \in DOMAIN stock_items : StockItemsHandleDelete(it)

SpecStudents == InitStudents /\ [][NextStudents]_vars

\* ======================================================================
\* Row-level security: requests of a client that holds the project's public key
\* ======================================================================
MaxRequests == 2

TableNames == {"students", "transactions", "stock_items", "purchases", "daily_sales",
               "stock_purchases"}
Commands == {"SELECT", "INSERT", "UPDATE", "DELETE"}

\* policies that let every role manage the catalogue
Policy_PublicStockItems(table, role, command) ==
  \/ table = "stock_items"
  \/ table = "students" /\ StudentsPolicy(role, command)
  \/ role = "authenticated"

\* the policies of the six tables: every table has row-level security enabled, and
\* but for the public SELECT on students every policy is TO authenticated, USING (true)
Policy(table, role, command) ==
  CASE table = "students" -> StudentsPolicy(role, command)
    [] OTHER -> role = "authenticated"

\* the database as one value, and a step that stores such a value
Db == [students |-> students, transactions |-> transactions,
       stock_items |-> stock_items, purchases |-> purchases,
       daily_sales |-> daily_sales, stock_purchases |-> stock_purchases]
DbBecomes(db) ==
  /\ students' = db.students
  /\ transactions' = db.transactions
  /\ stock_items' = db.stock_items
  /\ purchases' = db.purchases
  /\ daily_sales' = db.daily_sales
  /\ stock_purchases' = db.stock_purchases

KeyedTables == {"students", "stock_items"}

\* the row a request inserts into a table
SampleRow(table) ==
  CASE table = "students" -> NewStudent("s3", "A3", "Y")
    [] table = "stock_items" -> [quantity |-> 0, cost_price |-> 1, selling_price |-> 1]
    [] table = "transactions" ->
         [student_id |-> 1, amount |-> 1, type |-> "deposit", method |-> "online"]
    [] table = "purchases" ->
         [student_id |-> 1, item_id |-> 1, quantity |-> 1, total_price |-> 1]
    [] table = "daily_sales" ->
         [item_id |-> 1, quantity_sold |-> 1, selling_price_per_unit |-> 1,
          total_revenue |-> 1, cost_price_per_unit |-> 1, total_cost |-> 1, profit |-> 0]
    [] OTHER -> [item_id |-> 1, quantity |-> 1, cost_per_unit |-> 1, total_cost |-> 1]

\* the constraints the inserted row has to meet: UNIQUE and the foreign keys
SampleRowOK(db, table) ==
  /\ table = "students"
       => \A k \in DOMAIN db.students : db.students[k].admission_no # "A3"
  /\ table \in {"transactions", "purchases"} => 1 \in DOMAIN db.students
  /\ table \in {"purchases", "daily_sales", "stock_purchases"}
       => 1 \in DOMAIN db.stock_items

InsertRow(db, table) ==
  IF table \in KeyedTables
    THEN LET ids == DOMAIN db[table]
             id == IF ids = {} THEN 1 ELSE Max(ids) + 1
         IN [db EXCEPT ![table] = [k \in ids \cup {id} |->
                                     IF k = id THEN SampleRow(table) ELSE @[k]]]
    ELSE [db EXCEPT ![table] = Append(@, SampleRow(table))]

\* the row a request's update leaves
Touched(table, r) ==
  CASE table = "students" -> [r EXCEPT !.class_code = "Z"]
    [] table = "stock_items" -> [r EXCEPT !.selling_price = 3]
    [] table = "transactions" -> [r EXCEPT !.amount = 3]
    [] table = "daily_sales" -> [r EXCEPT !.quantity_sold = 3]
    [] OTHER -> [r EXCEPT !.quantity = 3]

UpdateRow(db, table, k) == [db EXCEPT ![table][k] = Touched(table, @)]

\* a sequence without its k-th element
RemoveAt(rows, k) ==
  [i \in 1..(Len(rows) - 1) |-> IF i < k THEN rows[i] ELSE rows[i + 1]]

\* the delete of row k, with the ON DELETE CASCADE of the rows that reference it
DeleteRow(db, table, k) ==
  CASE table = "students" ->
         [db EXCEPT !.students = [j \in DOMAIN @ \ {k} |-> @[j]],
                    !.transactions = SelectSeq(@, LAMBDA r : r.student_id # k),
                    !.purchases = SelectSeq(@, LAMBDA r : r.student_id # k)]
    [] table = "stock_items" ->
         [db EXCEPT !.stock_items = [j \in DOMAIN @ \ {k} |-> @[j]],
                    !.purchases = SelectSeq(@, LAMBDA r : r.item_id # k),
                    !.daily_sales = SelectSeq(@, LAMBDA r : r.item_id # k),
                    !.stock_purchases = SelectSeq(@, LAMBDA r : r.item_id # k)]
    [] OTHER -> [db EXCEPT ![table] = RemoveAt(@, k)]

\* In this part `session` is a client of the database API: its role, its last
\* request, the rows the request returned and the request's error.
NoRequest == [role |-> "anon", table |-> "", command |-> "", rows |-> {}, error |-> ""]

\* LoginForm.handleSubmit when signIn succeeds: the client's requests now carry the
\* user's token
signIn ==
  /\ session.role = "anon"
  /\ session' = [session EXCEPT !.role = "authenticated"]
  /\ UNCHANGED <<tables, ops, serial, viewVars>>

\* one request on a table: a command without a policy for the client's role sees no
\* row (SELECT, UPDATE, DELETE) or is refused (INSERT)
Request(table, command, k) ==
  /\ ops < MaxRequests
  /\ ops' = ops + 1
  /\ LET allowed == Policy(table, session.role, command)
         hit == allowed /\ k \in DOMAIN Db[table]
         answer(rows, error) == [session EXCEPT !.table = table, !.command = command,
                                                !.rows = rows, !.error = error]
     IN CASE command = "SELECT" ->
               /\ session' = answer(IF allowed THEN Range(Db[table]) ELSE {}, "")
               /\ UNCHANGED tables
          [] command = "INSERT" ->
               IF ~allowed
                 THEN session' = answer({}, "42501") /\ UNCHANGED tables
               ELSE IF ~SampleRowOK(Db, table)
                 THEN /\ session' = answer({}, IF table = "students" THEN "23505"
                                                ELSE "23503")
                      /\ UNCHANGED tables
               ELSE session' = answer({}, "") /\ DbBecomes(InsertRow(Db, table))
          [] command = "UPDATE" ->
               /\ session' = answer({}, "")
               /\ IF hit THEN DbBecomes(UpdateRow(Db, table, k)) ELSE UNCHANGED tables
          [] OTHER ->
               /\ session' = answer({}, "")
               /\ IF hit THEN DbBecomes(DeleteRow(Db, table, k)) ELSE UNCHANGED tables
  /\ UNCHANGED <<serial, viewVars>>

InitRls == ShopInUse /\ session = NoRequest

NextRls ==
  \/ signIn
  \/ \E table \in TableNames, command \in Commands, k \in {1, 2} :
       Request(table, command, k)

SpecRls == InitRls /\ [][NextRls]_vars

\* ======================================================================
\* Stock purchases over a range of quantities and costs
\* ======================================================================
MaxStock == 2             \* largest quantity of the item before the purchases
MaxCost == 3              \* largest cost, in cents, of the item and of a purchase

\* the catalogue holds one item, with any quantity and cost_price in range
InitCost ==
  /\ students = (1 :> NewStudent("s1", "A1", "X"))
  /\ transactions = << >>
  /\ \E Q \in 0..MaxStock, C \in 0..MaxCost :
       stock_items = [i \in ItemIds |->
                        [quantity |-> Q, cost_price |-> C, selling_price |-> 1]]
  /\ purchases = << >>
  /\ daily_sales = << >>
  /\ stock_purchases = << >>
  /\ session = [s \in Sessions |->
                  [pc |-> "idle", students |-> students, stockItems |-> stock_items,
                   refetch |-> FALSE, st |-> 1, it |-> 1, qty |-> 0, amt |-> 0,
                   done |-> {}, short |-> FALSE, inTurn |-> TRUE]]
  /\ ops = 0
  /\ serial = TRUE
  /\ csvImport = NoImport
  /\ balanceCheck = NoBalanceCheck

\* the stock purchase form and the reload of the view
NextCost ==
  \E s \in Sessions :
    \/ fetchData(s)
    \/ \E it \in ItemIds, q \in FormQuantities, c \in 0..MaxCost :
         StockPurchasesHandleSubmit(s, it, q, c)
    \/ StockPurchaseInsert(s)
    \/ StockPurchaseStockUpdate(s)

SpecCost == InitCost /\ [][NextCost]_vars

\* ======================================================================
\* Claims checked under Spec
\* ======================================================================
PurchasePcs == {"purchase_insert", "purchase_stock", "purchase_student",
                "purchase_transaction"}
WriteNo(pc) ==
  CASE pc = "purchase_insert" -> 1
    [] pc = "purchase_stock" -> 2
    [] pc = "purchase_student" -> 3
    [] pc = "purchase_transaction" -> 4
    [] OTHER -> 0

C2_PurchaseRejected ==
  \A s \in Sessions : session[s].short => session[s].done = {}

\* C3: a daily_sales row is never inserted with quantity_sold above the quantity the
\* item has in stock_items at the time of the insert.
C3_SaleWithinStock ==
  [][\A s \in Sessions :
       (session[s].pc = "sale_insert" /\ Len(daily_sales') > Len(daily_sales))
         => daily_sales'[Len(daily_sales')].quantity_sold
              <= stock_items[session[s].it].quantity]_vars

\* C4: every daily_sales row has total_revenue = quantity_sold * selling_price_per_unit,
\* total_cost = quantity_sold * cost_price_per_unit and
\* profit = total_revenue - total_cost = (selling - cost) * quantity_sold.
C4_SaleArithmetic ==
  \A i \in 1..Len(daily_sales) :
    LET r == daily_sales[i]
    IN /\ r.total_revenue = r.quantity_sold * r.selling_price_per_unit
       /\ r.total_cost = r.quantity_sold * r.cost_price_per_unit
       /\ r.profit = r.total_revenue - r.total_cost
       /\ r.profit = (r.selling_price_per_unit - r.cost_price_per_unit) * r.quantity_sold

\* C4 witness: a recorded sale whose profit is negative
C4_Witness ==
  \E i \in 1..Len(daily_sales) :
    daily_sales[i].profit < 0 /\ daily_sales[i].quantity_sold = MaxQty

\* a step in which session s commits the stock_items update of a stock purchase
StockPurchaseCommitted(s) ==
  session[s].pc = "stockpurchase_stock" /\ 2 \in session'[s].done

C10_WritesArePrefix ==
  /\ [](\A s \in Sessions :
          /\ session[s].done \in {1..k : k \in 0..4}
          /\ session[s].pc \in PurchasePcs
               => session[s].done = 1..(WriteNo(session[s].pc) - 1))
  /\ [][\A s \in Sessions :
          (session[s].pc \in PurchasePcs /\ session'[s] # session[s])
            => LET k == WriteNo(session[s].pc)
               IN \/ /\ session'[s].done = session[s].done \cup {k}
                     /\ session'[s].pc = NextPc(session[s].pc)
                     /\ (k = 1) = (purchases' # purchases)
                     /\ (k = 4) = (transactions' # transactions)
                     /\ (k \notin {2, 3}) => UNCHANGED <<students, stock_items>>
                     /\ (k = 2) => UNCHANGED students
                     /\ (k = 3) => UNCHANGED stock_items
                  \/ /\ session'[s].done = session[s].done
                     /\ session'[s].pc = "idle"
                     /\ UNCHANGED tables]_vars
  /\ [][/\ Len(purchases') >= Len(purchases)
        /\ SubSeq(purchases', 1, Len(purchases)) = purchases]_vars

\* C10 witness: a purchase whose fourth write failed: the purchases row, the stock
\* decrement and the balance debit are in place, the spend transaction is not
C10_Witness ==
  \E s \in Sessions :
    /\ Idle(s) /\ session[s].done = {1, 2, 3}
    /\ Len(purchases) = 1
    /\ \A i \in 1..Len(transactions) : transactions[i].type # "spend"

\* the step in which session s commits write k while standing at pc
Commits(s, pc, k) == session[s].pc = pc /\ k \in session'[s].done

\* C11: every write of a quantity or a balance stores the value the session had
\* loaded, changed by the session's own amount, whatever the stored value is by then:
\* the last writer wins, and the change another session made since the load is lost.
C11_LastWriterWins ==
  [][\A s \in Sessions :
       LET it == session[s].it
           st == session[s].st
           q == session[s].qty
       IN /\ Commits(s, "purchase_stock", 2)
               => stock_items'[it].quantity = TheItem(s).quantity - q
          /\ Commits(s, "sale_stock", 2)
               => stock_items'[it].quantity = TheItem(s).quantity - q
          /\ Commits(s, "stockpurchase_stock", 2)
               => stock_items'[it].quantity = TheItem(s).quantity + q
          /\ Commits(s, "purchase_student", 3)
               => students'[st].balance
                    = TheStudent(s).balance - PurchaseTotalPrice(TheItem(s), q)]_vars

\* C11 witness: two sessions loaded the same quantity Q and balance B and each
\* completed a purchase (d1, p1 and d2, p2): the stored quantity is Q - d2 and the
\* stored balance B - p2
C11_Witness ==
  \E s, t \in Sessions :
    /\ s # t /\ Idle(s) /\ Idle(t)
    /\ session[s].done = {1, 2, 3, 4} /\ session[t].done = {1, 2, 3, 4}
    /\ session[s].it = session[t].it /\ session[s].st = session[t].st
    /\ TheItem(s) = TheItem(t) /\ TheStudent(s) = TheStudent(t)
    /\ session[s].qty > 0
    /\ PurchaseTotalPrice(TheItem(s), session[s].qty) > 0
    /\ stock_items[session[t].it].quantity = TheItem(t).quantity - session[t].qty
    /\ students[session[t].st].balance
         = TheStudent(t).balance - PurchaseTotalPrice(TheItem(t), session[t].qty)
    /\ Len(purchases) = 2

\* the write session s is about to issue would store a value its table's CHECK refuses
WouldViolate(s) ==
  LET q == session[s].qty
      total == PurchaseTotalPrice(TheItem(s), q)
  IN CASE session[s].pc = "purchase_insert" -> q <= 0 \/ total <= 0
       [] session[s].pc = "purchase_stock" -> TheItem(s).quantity - q < 0
       [] session[s].pc = "purchase_student" -> TheStudent(s).balance - total < 0
       [] session[s].pc = "purchase_transaction" -> total <= 0
       [] session[s].pc = "sale_insert" -> q <= 0
       [] session[s].pc = "sale_stock" -> TheItem(s).quantity - q < 0
       [] session[s].pc = "stockpurchase_insert" -> q <= 0
       [] session[s].pc \in {"deposit_insert", "spend_insert"} -> session[s].amt <= 0
       [] session[s].pc = "spend_student" -> TheStudent(s).balance - session[s].amt < 0
       [] OTHER -> FALSE

\* C12: in every state every stock quantity, balance, total_paid and total_spent is
\* >= 0, every transaction amount, purchase quantity, purchase total_price and
\* quantity_sold is > 0; and a write that would store a refused value fails, ends
\* its handler and changes no table.
C12_StorageChecks ==
  /\ [](/\ \A i \in ItemIds : stock_items[i].quantity >= 0
        /\ \A i \in StudentIds :
             /\ students[i].balance >= 0
             /\ students[i].total_paid >= 0
             /\ students[i].total_spent >= 0
        /\ \A i \in 1..Len(transactions) : transactions[i].amount > 0
        /\ \A i \in 1..Len(purchases) :
             purchases[i].quantity > 0 /\ purchases[i].total_price > 0
        /\ \A i \in 1..Len(daily_sales) : daily_sales[i].quantity_sold > 0
        /\ \A i \in 1..Len(stock_purchases) : stock_purchases[i].quantity > 0)
  /\ [][\A s \in Sessions :
          (session'[s] # session[s] /\ WouldViolate(s))
            => /\ UNCHANGED tables
               /\ session'[s].pc = "idle"
               /\ session'[s].done = session[s].done]_vars

\* C12 witness: a spend above the balance was logged, and its update of the student,
\* which would have stored a negative balance, was refused
C12_Witness ==
  \E s \in Sessions :
    /\ Idle(s) /\ session[s].done = {1} /\ session[s].qty = 0
    /\ session[s].amt > TheStudent(s).balance
    /\ Len(transactions) > 0
    /\ transactions[Len(transactions)].type = "spend"
    /\ students[session[s].st] = TheStudent(s)

C21_SaleSnapshots ==
  [][/\ Len(daily_sales') >= Len(daily_sales)
     /\ SubSeq(daily_sales', 1, Len(daily_sales)) = daily_sales
     /\ \A s \in Sessions :
          Commits(s, "sale_insert", 1)
            => LET row == daily_sales'[Len(daily_sales')]
               IN /\ Len(daily_sales') = Len(daily_sales) + 1
                  /\ row.selling_price_per_unit = TheItem(s).selling_price
                  /\ row.cost_price_per_unit = TheItem(s).cost_price]_vars

\* C21 witness: after a sale, a stock purchase has moved the item's cost_price away
\* from the cost recorded in the sale's row
C21_Witness ==
  /\ \A s \in Sessions : Idle(s)
  /\ Len(daily_sales) = 1 /\ Len(stock_purchases) = 1
  /\ daily_sales[1].cost_price_per_unit = 2
  /\ stock_items[daily_sales[1].item_id].cost_price = 1

\* no session but s has submitted anything yet: what is stored is what the writes of
\* s made it
OthersNeverActed(s) ==
  \A t \in Sessions \ {s} :
    Idle(t) /\ session[t].done = {} /\ session[t].qty = 0 /\ session[t].amt = 0

\* C23: while one session is the only one to act, every action it submits finds in
\* its component state the stored quantity of the item it sells, buys or restocks
\* and the stored balance of the student it debits or credits.
C23_OwnWritesSeen ==
  [][\A s \in Sessions :
       (Idle(s) /\ ~Idle(s)' /\ OthersNeverActed(s))
         => LET pc == session'[s].pc
                it == session'[s].it
                st == session'[s].st
            IN /\ pc \in {"purchase_insert", "sale_insert", "stockpurchase_insert"}
                    => session[s].stockItems[it].quantity = stock_items[it].quantity
               /\ pc \in {"purchase_insert", "deposit_insert", "spend_insert"}
                    => session[s].students[st].balance = students[st].balance]_vars

\* the sum of a sequence of numbers
SumSeq(q) ==
  LET sum[i \in 0..Len(q)] == IF i = 0 THEN 0 ELSE sum[i - 1] + q[i]
  IN sum[Len(q)]

\* units of an item over the rows of stock_purchases, daily_sales and purchases
UnitsRestocked(it) ==
  SumSeq([i \in 1..Len(stock_purchases) |->
            IF stock_purchases[i].item_id = it THEN stock_purchases[i].quantity ELSE 0])
UnitsSold(it) ==
  SumSeq([i \in 1..Len(daily_sales) |->
            IF daily_sales[i].item_id = it THEN daily_sales[i].quantity_sold ELSE 0])
UnitsPurchased(it) ==
  SumSeq([i \in 1..Len(purchases) |->
            IF purchases[i].item_id = it THEN purchases[i].quantity ELSE 0])

AllIdle == \A s \in Sessions : Idle(s)

\* history: the actions so far were applied one at a time and every write succeeded
OneAtATime == \A s \in Sessions : session[s].inTurn

\* C24: between actions of a run in which the actions were applied one at a time
\* and every write succeeded, the stored quantity of each item is its initial
\* quantity plus the units of its stock_purchases rows minus the units of its
\* daily_sales rows minus the units of its purchases rows.
C24_StockLedger ==
  (OneAtATime /\ AllIdle)
    => \A it \in ItemIds :
         \E initial \in InitQuantities :
           stock_items[it].quantity
             = initial + UnitsRestocked(it) - UnitsSold(it) - UnitsPurchased(it)

\* per student: the total_price of the purchases rows, the amount of the spend
\* transactions a purchase inserted (method credit), and the amount of the spend
\* transactions entered by hand (method bycash)
PurchasesTotal(st) ==
  SumSeq([i \in 1..Len(purchases) |->
            IF purchases[i].student_id = st THEN purchases[i].total_price ELSE 0])
SpendTotal(st, method) ==
  SumSeq([i \in 1..Len(transactions) |->
            IF /\ transactions[i].student_id = st /\ transactions[i].type = "spend"
               /\ transactions[i].method = method
              THEN transactions[i].amount ELSE 0])

\* C25: between actions of a run in which the actions were applied one at a time
\* and every write succeeded, for every student the total_price of the purchases
\* rows equals the amount of the spend transactions inserted by purchases, and
\* equals what purchases added to total_spent (total_spent starts at 0 and is raised
\* otherwise only by the spend transactions entered by hand).
C25_PurchaseTotalsAgree ==
  (OneAtATime /\ AllIdle)
    => \A st \in StudentIds :
         /\ PurchasesTotal(st) = SpendTotal(st, "credit")
         /\ PurchasesTotal(st) = students[st].total_spent - SpendTotal(st, "bycash")

\* C28: a student purchase of an item loaded with selling_price 0 gets past the
\* checks of the form whatever the student's balance, and the step of its first
\* write, the purchases insert with total_price 0, ends the handler with no write
\* committed and every table as it was.
C28_FreeItemRefused ==
  [][\A s \in Sessions :
       (session[s].pc = "purchase_insert" /\ TheItem(s).selling_price = 0)
         => /\ PurchaseValid(TheItem(s), TheStudent(s), session[s].qty)
            /\ PurchaseTotalPrice(TheItem(s), session[s].qty) = 0
            /\ session'[s] # session[s]
                 => /\ UNCHANGED tables
                    /\ Idle(s)'
                    /\ session'[s].done = {}]_vars

\* C28 witness: the purchase of 2 units of an item priced 0 for a student without
\* balance has passed the checks of the form and is about to issue its first write
C28_Witness ==
  \E s \in Sessions :
    /\ session[s].pc = "purchase_insert"
    /\ TheItem(s).selling_price = 0
    /\ stock_items[session[s].it].selling_price = 0
    /\ session[s].qty = 2
    /\ TheStudent(s).balance = 0

\* ======================================================================
\* Claims checked under SpecCsv
\* ======================================================================
\* C6: an import whose header row lacks one of name, admission_no, class_code
\* inserts no student, and no line whose number of values differs from the number
\* of header columns is ever among the inserted lines; the students table changes
\* by exactly the inserted lines.
C6_ImportRejects ==
  /\ [](csvImport.file # << >> =>
          LET lines == CsvLines(csvImport.file)
          IN /\ MissingHeaders(CsvHeaders(lines[1])) # {} => csvImport.inserted = {}
             /\ \A i \in csvImport.inserted : Len(lines[i]) = Len(lines[1]))
  /\ [][/\ csvImport'.inserted = {} => students' = students
        /\ Len(students') = Len(students) + Cardinality(csvImport'.inserted)]_vars

\* a file with a complete header, a well-formed line and a line of another length
\* was refused as a whole, beside a table that already holds a student
C6_Witness ==
  /\ csvImport.toast = "Import errors"
  /\ csvImport.inserted = {}
  /\ Len(students) = 1
  /\ LET lines == CsvLines(csvImport.file)
     IN /\ MissingHeaders(CsvHeaders(lines[1])) = {}
        /\ \E i, j \in 2..Len(lines) :
             /\ Len(lines[i]) # Len(lines[1])
             /\ CsvRowError(CsvHeaders(lines[1]), CsvValues(lines[j])) = ""

\* C7: an import inserts students only from a file whose header columns are exactly
\* name, admission_no and class_code, and no imported student carries a balance,
\* total_paid or total_spent other than the default 0.
C7_ExactColumnSet ==
  /\ csvImport.inserted # {} =>
       Range(CsvHeaders(CsvLines(csvImport.file)[1])) = requiredHeaders
  /\ \A k \in StudentIds :
       students[k].balance = 0 /\ students[k].total_paid = 0 /\ students[k].total_spent = 0

\* the admission numbers of the data lines of a file, by line number; lines that do
\* not have the header's number of cells have none
FileAdmissionNos(file) ==
  LET lines == CsvLines(file)
      headers == CsvHeaders(lines[1])
  IN [i \in {j \in 2..Len(lines) : /\ "admission_no" \in Range(headers)
                                   /\ Len(lines[j]) = Len(headers)} |->
        CsvStudent(headers, CsvValues(lines[i]))["admission_no"]]

\* some line of the file repeats the admission number of a stored student or of
\* another line
FileHasDuplicate(file) ==
  LET nos == FileAdmissionNos(file)
  IN \/ \E i, j \in DOMAIN nos : i # j /\ nos[i] = nos[j]
     \/ \E i \in DOMAIN nos, k \in StudentIds : nos[i] = students[k].admission_no

\* C14: an import of a file in which some line repeats the admission number of a
\* stored student or of another line inserts no line of the file and ends with one
\* error message.
C14_AllOrNothing ==
  [][(csvImport' # csvImport /\ FileHasDuplicate(csvImport'.file))
       => /\ students' = students
          /\ csvImport'.inserted = {}
          /\ csvImport'.toast \in
               { "Some admission numbers already exist", "Failed to import students",
                 "Import errors", "Missing required columns" }
          /\ (/\ MissingHeaders(CsvHeaders(CsvLines(csvImport'.file)[1])) = {}
              /\ \A i \in 2..Len(CsvLines(csvImport'.file)) :
                   CsvRowError(CsvHeaders(CsvLines(csvImport'.file)[1]),
                               CsvValues(CsvLines(csvImport'.file)[i])) = "")
               => csvImport'.toast \in { "Some admission numbers already exist",
                                         "Failed to import students" }]_vars

\* C14 witness: a file with a new student and a line repeating a stored admission
\* number was refused with the aggregate message, and the new student is not stored
C14_Witness ==
  /\ csvImport.toast = "Some admission numbers already exist"
  /\ csvImport.inserted = {}
  /\ Len(students) = 1
  /\ LET nos == FileAdmissionNos(csvImport.file)
     IN \E i, j \in DOMAIN nos :
          /\ nos[i] = students[1].admission_no
          /\ \A k \in StudentIds : nos[j] # students[k].admission_no

\* some data line of the file has not the header's number of cells, or has nothing
\* but white space in the cell of name, admission_no or class_code
FileHasBadRow(file) ==
  LET lines == CsvLines(file)
      headers == CsvHeaders(lines[1])
  IN \E i \in 2..Len(lines) :
       \/ Len(lines[i]) # Len(headers)
       \/ \E j \in 1..Len(headers) :
            headers[j] \in requiredHeaders /\ Trim(lines[i][j]) = ""

\* C22: an import of a file in which some data line has a wrong number of cells or
\* an empty name, admission_no or class_code inserts no line of the file, the
\* well-formed ones included.
C22_RowValidationAllOrNothing ==
  [][(csvImport' # csvImport /\ FileHasBadRow(csvImport'.file))
       => students' = students /\ csvImport'.inserted = {}]_vars

\* C22 witness: a file with a complete header, a well-formed line of a new student
\* and a line with an empty admission_no was refused as a whole
C22_Witness ==
  /\ csvImport.toast = "Import errors"
  /\ csvImport.inserted = {}
  /\ students = << >>
  /\ LET lines == CsvLines(csvImport.file)
         headers == CsvHeaders(lines[1])
     IN /\ MissingHeaders(headers) = {}
        /\ \E i, j \in 2..Len(lines) :
             /\ Len(lines[i]) = Len(headers)
             /\ CsvStudent(headers, CsvValues(lines[i]))["admission_no"] = ""
             /\ CsvRowError(headers, CsvValues(lines[j])) = ""

\* ======================================================================
\* Claims checked under SpecBalance
\* ======================================================================
\* the step in which a search gets its answer
SearchEnds == balanceCheck.loading /\ ~balanceCheck'.loading

\* C8: an answered search by admission number shows exactly the student whose
\* admission_no is the trimmed search value, or "Student not found" and no student;
\* an answered search by class code shows exactly the students whose class_code is
\* the trimmed search value; a search whose query failed shows no student.
C8_SearchResult ==
  [][SearchEnds =>
       LET type == balanceCheck.query[1]
           value == Trim(balanceCheck.query[2])
           byAdmission == {k \in StudentIds : students[k].admission_no = value}
           byClass == {k \in StudentIds : students[k].class_code = value}
           shown == balanceCheck'
       IN IF shown.toast = "An error occurred while searching"
            THEN shown.student = << >> /\ shown.students = << >>
          ELSE IF type = "admission"
            THEN /\ shown.students = << >>
                 /\ Cardinality(byAdmission) <= 1
                 /\ IF byAdmission = {}
                      THEN shown.student = << >> /\ shown.toast = "Student not found"
                      ELSE /\ shown.student = <<students[CHOOSE k \in byAdmission : TRUE]>>
                           /\ shown.toast = ""
          ELSE /\ shown.student = << >>
               /\ Range(shown.students) = {students[k] : k \in byClass}
               /\ Len(shown.students) = Cardinality(byClass)
               /\ (byClass = {}) = (shown.toast = "No students found in this class")]_vars

\* a class search has shown the two students of a class out of a table of three
C8_Witness ==
  /\ ~balanceCheck.loading
  /\ balanceCheck.query = <<"class", "X">>
  /\ Len(balanceCheck.students) = 2
  /\ Len(students) = 3

\* C9: no step of the balance check changes a row of any table, and a search made
\* without an authenticated session is answered from the students table like any
\* other.
C9_ReadOnly ==
  /\ [][balanceCheck' # balanceCheck => UNCHANGED tables]_vars
  /\ [][(SearchEnds /\ balanceCheck.role = "anon"
           /\ balanceCheck'.toast # "An error occurred while searching") =>
          LET type == balanceCheck.query[1]
              value == Trim(balanceCheck.query[2])
          IN IF type = "admission"
               THEN (balanceCheck'.student # << >>)
                      = (\E k \in StudentIds : students[k].admission_no = value)
               ELSE (balanceCheck'.students # << >>)
                      = (\E k \in StudentIds : students[k].class_code = value)]_vars

\* an unauthenticated search has shown a student while the table held others too
C9_Witness ==
  /\ balanceCheck.role = "anon"
  /\ ~balanceCheck.loading
  /\ balanceCheck.query = <<"admission", " A2 ">>
  /\ balanceCheck.student # << >>
  /\ Len(students) >= 2

\* C29: the single-student result and the class list are never both populated; the
\* step that starts a search empties both before its query is under way; and a
\* result on the screen is an answer to the query of the search started last: a
\* student with the admission number searched, or students of the class searched.
C29_ResultOfLastSearch ==
  /\ [](~(balanceCheck.student # << >> /\ balanceCheck.students # << >>))
  /\ [](balanceCheck.loading
          => balanceCheck.student = << >> /\ balanceCheck.students = << >>)
  /\ [](balanceCheck.student # << >>
          => /\ balanceCheck.query # << >>
             /\ balanceCheck.query[1] = "admission"
             /\ balanceCheck.student[1].admission_no = Trim(balanceCheck.query[2]))
  /\ [](balanceCheck.students # << >>
          => /\ balanceCheck.query # << >>
             /\ balanceCheck.query[1] = "class"
             /\ \A i \in 1..Len(balanceCheck.students) :
                  balanceCheck.students[i].class_code = Trim(balanceCheck.query[2]))
  /\ [][(~balanceCheck.loading /\ balanceCheck'.loading)
          => /\ balanceCheck'.student = << >> /\ balanceCheck'.students = << >>
             /\ balanceCheck'.query = <<balanceCheck.searchType,
                                        balanceCheck.searchValue>>]_vars

\* C29 witness: the class list of the last search is on the screen while the form
\* has been switched to a search by admission number since
C29_Witness ==
  /\ ~balanceCheck.loading
  /\ Len(balanceCheck.students) = 2
  /\ balanceCheck.student = << >>
  /\ balanceCheck.query = <<"class", "X">>
  /\ balanceCheck.searchType = "admission" /\ balanceCheck.searchValue = "A1"
  /\ \E k \in StudentIds : students[k].admission_no = "A1"

\* ======================================================================
\* Claims checked under SpecStudents
\* ======================================================================
\* the step is a submit of the add/edit form that passed the form's own check and
\* was answered by the database
SubmitAnswered ==
  /\ ops' = ops + 1
  /\ session'.action = "submit"
  /\ session'.toast # "Please fill in all fields"
  /\ session'.error # "network"

\* the submitted admission number is that of another stored student
AdmissionNoTaken ==
  \E k \in StudentIds \ {session.editingStudent} :
    students[k].admission_no = session'.formData.admission_no

AdmissionNosDistinct ==
  \A j, k \in StudentIds : students[j].admission_no = students[k].admission_no => j = k

C16_AppendOnly ==
  [][/\ Len(transactions') >= Len(transactions)
     /\ SubSeq(transactions', 1, Len(transactions)) = transactions]_vars

\* C16 (amended): no step modifies a stored transactions row, and a step removes
\* exactly the rows of a student it deletes: the rows of the students that remain
\* are kept as they are, in their order.
C16_KeptWhileStudentStored ==
  [][LET kept == SelectSeq(transactions, LAMBDA r : r.student_id \in DOMAIN students')
     IN /\ Len(transactions') >= Len(kept)
        /\ SubSeq(transactions', 1, Len(kept)) = kept]_vars

\* C16 witness: student 1 was deleted with its two transactions, and the deposit of
\* student 2 is still in the log
C16_Witness ==
  /\ session.action = "delete"
  /\ session.toast = "Student deleted successfully"
  /\ StudentIds = {2}
  /\ Len(transactions) = 1
  /\ transactions[1].student_id = 2

\* C17: every transactions and purchases row references a stored student, and every
\* purchases, daily_sales and stock_purchases row a stored stock item, in every
\* state, the one right after the delete of a student or an item included.
C17_ReferentialIntegrity ==
  /\ \A i \in 1..Len(transactions) : transactions[i].student_id \in StudentIds
  /\ \A i \in 1..Len(purchases) :
       /\ purchases[i].student_id \in StudentIds
       /\ purchases[i].item_id \in DOMAIN stock_items
  /\ \A i \in 1..Len(daily_sales) : daily_sales[i].item_id \in DOMAIN stock_items
  /\ \A i \in 1..Len(stock_purchases) : stock_purchases[i].item_id \in DOMAIN stock_items

\* C17 witness: the student who had made a purchase was deleted; the purchase is gone,
\* the item and its sales are not
C17_Witness ==
  /\ session.toast = "Student deleted successfully"
  /\ 1 \notin StudentIds
  /\ purchases = << >>
  /\ DOMAIN stock_items = {1}
  /\ Len(daily_sales) = 1

\* the step in which the form is submitted on a student being edited
EditSubmitted ==
  /\ session.editingStudent # 0
  /\ ops' = ops + 1
  /\ session'.action = "submit"

\* C27: the submission of the edit form leaves the set of students and every other
\* student's row as they are, and in the row of the edited student it changes at
\* most name, admission_no and class_code: balance, total_paid, total_spent and
\* last_payment keep their values.
C27_EditWritesIdentityOnly ==
  [][EditSubmitted
       => /\ DOMAIN students' = DOMAIN students
          /\ \A k \in StudentIds :
               /\ k # session.editingStudent => students'[k] = students[k]
               /\ students'[k].balance = students[k].balance
               /\ students'[k].total_paid = students[k].total_paid
               /\ students'[k].total_spent = students[k].total_spent
               /\ students'[k].last_payment = students[k].last_payment]_vars

\* C27 witness: the student with a payment history was renamed and moved to another
\* class, and still has its amounts and last payment
C27_Witness ==
  /\ session.action = "submit" /\ session.toast = "Student updated successfully"
  /\ 1 \in StudentIds
  /\ students[1].name = "s3" /\ students[1].admission_no = "A3"
  /\ students[1].class_code = "Y"
  /\ students[1].balance = 1 /\ students[1].total_paid = 2
  /\ students[1].total_spent = 1 /\ students[1].last_payment = "2025-08-07"

\* ======================================================================
\* Claims checked under SpecRls
\* ======================================================================
\* C15: a request of a client in the anon role changes no row of any table and
\* returns rows only when it is a SELECT on students; every step that changes a table
\* is taken by a client in the authenticated role.
C15_AnonReadsStudentsOnly ==
  /\ [][(session.role = "anon" /\ ops' = ops + 1)
          => /\ UNCHANGED tables
             /\ session'.rows # {}
                  => session'.table = "students" /\ session'.command = "SELECT"
             /\ (session'.table = "students" /\ session'.command = "SELECT")
                  => session'.rows = Range(students)]_vars
  /\ [][tables' # tables => session.role = "authenticated"]_vars

\* C15 witness: an anonymous client, at its second request or later, had an insert
\* into transactions refused
C15_Witness ==
  /\ session.role = "anon"
  /\ ops >= 2
  /\ session.table = "transactions" /\ session.command = "INSERT"
  /\ session.error = "42501"
  /\ Len(transactions) = 2

\* ======================================================================
\* Claims checked under SpecCost
\* ======================================================================
\* C26: a stock purchase of q units at cost c, submitted with the item loaded at
\* quantity Q and cost_price C, computes its average with a divisor Q + q of at
\* least 1, stores exactly c when Q = 0, and for Q > 0 stores a cost_price that is
\* neither below the smaller nor above the larger of C and c.
C26_AverageWithinCosts ==
  [][\A s \in Sessions :
       session[s].pc = "stockpurchase_stock"
         => LET it == session[s].it
                Q == session[s].stockItems[it].quantity
                C == session[s].stockItems[it].cost_price
                q == session[s].qty
                c == session[s].amt
            IN /\ q >= 1 /\ Q >= 0 /\ Q + q >= 1
               /\ StockPurchaseCommitted(s)
                    => /\ Q = 0 => stock_items'[it].cost_price = c
                       /\ Q > 0 => /\ stock_items'[it].cost_price >= (IF C < c THEN C ELSE c)
                                   /\ stock_items'[it].cost_price <= (IF C < c THEN c ELSE C)]_vars

\* C26 witness: one stock purchase was made on an item loaded with quantity 0, and
\* another on an item loaded with a positive quantity and a cost_price other than
\* the purchase's cost per unit
C26_Witness ==
  \E s, t \in Sessions :
    /\ Idle(s) /\ session[s].done = {1, 2}
    /\ Idle(t) /\ session[t].done = {1, 2}
    /\ TheItem(s).quantity = 0 /\ TheItem(s).cost_price # session[s].amt
    /\ TheItem(t).quantity > 0 /\ TheItem(t).cost_price # session[t].amt

====
